---- MODULE Spec2Model ----
(***************************************************************************)
(* A model of ZConfig's schema description objects (info.py): KeyInfo's    *)
(* default-value life cycle, SectionType's ordered child list with its     *)
(* two index maps, the section matching algorithm getsectionindex /        *)
(* getsectioninfo, the constructors' checks and isAllowedName, and         *)
(* SchemaType's type registry with the traversals getrequiredtypes and     *)
(* getunusedtypes.                                                         *)
(*                                                                         *)
(* Five specifications: Spec (one SectionType), SpecKey (one KeyInfo),     *)
(* SpecInfo (constructors and isAllowedName), SpecSchema (registry,        *)
(* created types and traversals) and SpecAll (every call on one schema).   *)
(*                                                                         *)
(* Python values are modelled as records.  A call either returns a value   *)
(* (Return) or raises an exception (Raise); the last call and its result   *)
(* are kept in the variables call and ret.  Python's falsy names (None and *)
(* the empty string) are both the empty string here.  Indexes are 0-based  *)
(* as in the source, and every Python value is a record with a kind.       *)
(***************************************************************************)
EXTENDS Integers, Sequences, FiniteSets, TLC

VARIABLES
    _children,   \* SectionType._children : sequence of <<key, info>>
    _keymap,     \* SectionType._keymap   : key -> index
    _attrmap,    \* SectionType._attrmap  : attribute -> index
    maxOccurs,   \* KeyInfo.maxOccurs
    _finished,   \* KeyInfo._finished
    _default,    \* KeyInfo._default
    added,       \* history: the ValueInfo of every adddefault that returned
    selfname,    \* SchemaType.name : the name of the root type
    _types,      \* SchemaType._types : lowercased name -> type object
    heap,        \* the SectionType objects made by createSectionType, by
                 \* name : each one's _children, _keymap and _attrmap
    call,        \* the last call made: its name and arguments
    ret          \* what the last call returned or raised

vars == <<_children, _keymap, _attrmap, maxOccurs, _finished, _default,
          added, selfname, _types, heap, call, ret>>

sectvars == <<_children, _keymap, _attrmap>>
keyvars == <<maxOccurs, _finished, _default, added>>
schemavars == <<selfname, _types, heap>>

----------------------------------------------------------------------------
(* Bounds of the model *)

MaxChildren == 2
MaxDefaults == 3

----------------------------------------------------------------------------
(* Results of calls and Python's None *)

None == [kind |-> "None"]

Return(v) == [kind |-> "return", value |-> v]

Raise(exc, msg) == [kind |-> "raise", exc |-> exc, msg |-> msg]

IsRaise(r) == r.kind = "raise"

\* ZConfig's exception classes: SchemaError derives from ConfigurationError
\* (through _ParseError), so a handler for ConfigurationError also takes a
\* SchemaError.
IsSubclass(exc, base) ==
    \/ exc = base
    \/ exc = "SchemaError" /\ base = "ConfigurationError"

\* "except <base>:" applied to a result
Caught(r, base) == IsRaise(r) /\ IsSubclass(r.exc, base)

NoCall == [op |-> "none"]

----------------------------------------------------------------------------
(* Occurrence bounds: integers, the Unbounded sentinel, or None *)

\* a Python integer
PyInt(n) == [kind |-> "int", n |-> n]

Finite(n) == PyInt(n)

Unbounded == [kind |-> "Unbounded"]

\* a < b as Python 2 evaluates it: UnboundedThing.__lt__ is always False, an
\* integer on the left of Unbounded falls back on UnboundedThing.__gt__, and
\* None sorts below every other object
Lt(a, b) ==
    IF a.kind = "Unbounded" THEN FALSE
    ELSE IF b.kind = "Unbounded" THEN TRUE
    ELSE IF a.kind = "None" THEN b.kind # "None"
    ELSE IF b.kind = "None" THEN FALSE
    ELSE a.n < b.n

\* a > b as Python 2 evaluates it: UnboundedThing.__gt__ is always True, an
\* integer on the left of Unbounded falls back on UnboundedThing.__lt__
Gt(a, b) ==
    IF a.kind = "Unbounded" THEN TRUE
    ELSE IF b.kind = "Unbounded" THEN FALSE
    ELSE IF b.kind = "None" THEN a.kind # "None"
    ELSE IF a.kind = "None" THEN FALSE
    ELSE a.n > b.n

\* BaseInfo.__init__: the checks made before the fields are stored
BaseInfo_init(minOccurs, maxOccurs_) ==
    IF maxOccurs_ # None /\ Lt(maxOccurs_, Finite(1))
    THEN IF Lt(maxOccurs_, Finite(1))
         THEN Raise("SchemaError", "maxOccurs must be at least 1")
         ELSE IF minOccurs # None /\ Lt(minOccurs, maxOccurs_)
         THEN Raise("SchemaError", "minOccurs must be at least maxOccurs")
         ELSE Return(None)
    ELSE Return(None)

\* BaseInfo.ismulti
ismulti(maxOccurs_) == Gt(maxOccurs_, Finite(1))

----------------------------------------------------------------------------
(* KeyInfo: finish, adddefault, getdefault *)

ValueInfo(value, position) ==
    [kind |-> "ValueInfo", value |-> value, position |-> position]

PyList(items) == [kind |-> "list", items |-> items]

\* the fields of a KeyInfo that its methods read and write
Key(m, f, d) == [maxOccurs |-> m, finished |-> f, default |-> d]

finish(k) ==
    IF k.finished
    THEN [ret |-> Raise("SchemaError", "cannot finish KeyInfo more than once"),
          k |-> k]
    ELSE [ret |-> Return(None), k |-> Key(k.maxOccurs, TRUE, k.default)]

\* adddefault without its check of _finished
adddefault_NoFinishedCheck(k, value, position) ==
    LET v == ValueInfo(value, position) IN
    IF Gt(k.maxOccurs, Finite(1))
    THEN IF k.default = None
         THEN [ret |-> Return(None),
               k |-> Key(k.maxOccurs, k.finished, PyList(<<v>>))]
         ELSE [ret |-> Return(None),
               k |-> Key(k.maxOccurs, k.finished,
                         PyList(Append(k.default.items, v)))]
    ELSE IF k.default # None
    THEN [ret |-> Raise("SchemaError",
                        "cannot set more than one default to key with maxOccurs == 1"),
          k |-> k]
    ELSE [ret |-> Return(None), k |-> Key(k.maxOccurs, k.finished, v)]

\* adddefault putting a repeatable key's new value first, and replacing a
\* singular key's default
adddefault_Insert(k, value, position) ==
    IF k.finished
    THEN [ret |-> Raise("SchemaError",
                        "cannot add default values to finished KeyInfo"),
          k |-> k]
    ELSE
    LET v == ValueInfo(value, position) IN
    IF Gt(k.maxOccurs, Finite(1))
    THEN IF k.default = None
         THEN [ret |-> Return(None),
               k |-> Key(k.maxOccurs, k.finished, PyList(<<v>>))]
         ELSE [ret |-> Return(None),
               k |-> Key(k.maxOccurs, k.finished,
                         PyList(<<v>> \o k.default.items))]
    ELSE [ret |-> Return(None), k |-> Key(k.maxOccurs, k.finished, v)]

adddefault(k, value, position) ==
    IF k.finished
    THEN [ret |-> Raise("SchemaError",
                        "cannot add default values to finished KeyInfo"),
          k |-> k]
    ELSE
    LET v == ValueInfo(value, position) IN
    IF Gt(k.maxOccurs, Finite(1))
    THEN IF k.default = None
         THEN [ret |-> Return(None),
               k |-> Key(k.maxOccurs, k.finished, PyList(<<v>>))]
         ELSE [ret |-> Return(None),
               k |-> Key(k.maxOccurs, k.finished,
                         PyList(Append(k.default.items, v)))]
    ELSE IF k.default # None
    THEN [ret |-> Raise("SchemaError",
                        "cannot set more than one default to key with maxOccurs == 1"),
          k |-> k]
    ELSE [ret |-> Return(None), k |-> Key(k.maxOccurs, k.finished, v)]

\* getdefault without the empty list of a repeatable key
getdefault_NoEmptyList(k) ==
    IF ~k.finished
    THEN Raise("SchemaError", "cannot get default value of key before KeyInfo has been completely initialized")
    ELSE Return(k.default)

getdefault(k) ==
    IF ~k.finished
    THEN Raise("SchemaError", "cannot get default value of key before KeyInfo has been completely initialized")
    ELSE IF k.default = None /\ Gt(k.maxOccurs, Finite(1))
    THEN Return(PyList(<<>>))
    ELSE Return(k.default)

----------------------------------------------------------------------------
(* Section types, type groups and child descriptors *)

\* SectionType(name, ...): a concrete section type
SectionType(name) == [kind |-> "SectionType", name |-> name]

\* GroupType(name) after addsubtype of the types named in subtypes;
\* _subtypes maps each type's own name to the type
GroupType(name, subtypes) ==
    [kind |-> "GroupType", name |-> name, _subtypes |-> subtypes]

TypeT == SectionType("T")
TypeU == SectionType("U")
GroupG == GroupType("G", {"T"})

\* what a SectionInfo's sectiontype may refer to
SectionTypes == {TypeT, TypeU, GroupG}

\* declared names of children and names of instances
Names == {"x", "y"}
Attributes == {"a", "b"}

KeyInfo(name, attribute) ==
    [kind |-> "KeyInfo", name |-> name, attribute |-> attribute]

SectionInfo(name, sectiontype, attribute) ==
    [kind |-> "SectionInfo", name |-> name, sectiontype |-> sectiontype,
     attribute |-> attribute]

\* SectionType.istypegroup / GroupType.istypegroup / BaseInfo.istypegroup
istypegroup(o) == o.kind = "GroupType"

\* BaseInfo.issection / SectionInfo.issection
issection(info) == info.kind = "SectionInfo"

\* SectionInfo.allowUnnamed
allowUnnamed(info) == info.name = "*"

\* GroupType.getsubtype
getsubtype(group, name) ==
    IF name \in group._subtypes
    THEN Return(SectionType(name))
    ELSE Raise("SchemaError", "no subtype in group")

----------------------------------------------------------------------------
(* SectionType._add_child, addkey, addsection *)

MapPut(m, k, v) == [x \in DOMAIN m \cup {k} |-> IF x = k THEN v ELSE m[x]]

EmptyMap == [x \in {} |-> 0]

\* the section's three structures as one value
Sect(c, k, a) == [children |-> c, keymap |-> k, attrmap |-> a]

\* _add_child without its check of the attribute map
_add_child_NoAttrCheck(s, key, info) ==
    IF key = "" /\ info.attribute = ""
    THEN [ret |-> Raise("AssertionError", ""), s |-> s]
    ELSE IF key # "" /\ key \in DOMAIN s.keymap
    THEN [ret |-> Raise("SchemaError", "child name already used"), s |-> s]
    ELSE [ret |-> Return(None),
          s |-> Sect(Append(s.children, <<key, info>>),
                     IF key # ""
                     THEN MapPut(s.keymap, key, Len(s.children))
                     ELSE s.keymap,
                     IF info.attribute # ""
                     THEN MapPut(s.attrmap, info.attribute, Len(s.children))
                     ELSE s.attrmap)]

\* _add_child appending the pair before it checks the attribute map
_add_child_AppendFirst(s, key, info) ==
    IF key = "" /\ info.attribute = ""
    THEN [ret |-> Raise("AssertionError", ""), s |-> s]
    ELSE IF key # "" /\ key \in DOMAIN s.keymap
    THEN [ret |-> Raise("SchemaError", "child name already used"), s |-> s]
    ELSE IF info.attribute # "" /\ info.attribute \in DOMAIN s.attrmap
    THEN [ret |-> Raise("SchemaError", "child attribute name already used"),
          s |-> [s EXCEPT !.children = Append(@, <<key, info>>)]]
    ELSE [ret |-> Return(None),
          s |-> Sect(Append(s.children, <<key, info>>),
                     IF key # ""
                     THEN MapPut(s.keymap, key, Len(s.children))
                     ELSE s.keymap,
                     IF info.attribute # ""
                     THEN MapPut(s.attrmap, info.attribute, Len(s.children))
                     ELSE s.attrmap)]

_add_child(s, key, info) ==
    IF key = "" /\ info.attribute = ""
    THEN [ret |-> Raise("AssertionError", ""), s |-> s]
    ELSE IF key # "" /\ key \in DOMAIN s.keymap
    THEN [ret |-> Raise("SchemaError", "child name already used"), s |-> s]
    ELSE IF info.attribute # "" /\ info.attribute \in DOMAIN s.attrmap
    THEN [ret |-> Raise("SchemaError", "child attribute name already used"),
          s |-> s]
    ELSE [ret |-> Return(None),
          s |-> Sect(Append(s.children, <<key, info>>),
                     IF key # ""
                     THEN MapPut(s.keymap, key, Len(s.children))
                     ELSE s.keymap,
                     IF info.attribute # ""
                     THEN MapPut(s.attrmap, info.attribute, Len(s.children))
                     ELSE s.attrmap)]

addkey(s, keyinfo) == _add_child(s, keyinfo.name, keyinfo)

addsection(s, name, sectinfo) ==
    IF name \in {"*", "+"}
    THEN [ret |-> Raise("AssertionError", ""), s |-> s]
    ELSE _add_child(s, name, sectinfo)

----------------------------------------------------------------------------
(* SectionType.getsectionindex and getsectioninfo *)

\* the loop goes on to the next child
Continue == [kind |-> "continue"]

\* a section declared under the instance's name: its type, or the subtype of
\* its group, must be the instance's type
named_section(info, index, type, name) ==
    LET st == info.sectiontype
        sub == IF istypegroup(st)
               THEN getsubtype(st, type)
               ELSE Return(st)
    IN  IF Caught(sub, "ConfigurationError")
        THEN Raise("ConfigurationError", "section type not allowed for name")
        ELSE IF IsRaise(sub)
        THEN sub
        ELSE IF ~(sub.value.name = type)
        THEN Raise("ConfigurationError",
                   "name must be used for a section of its type")
        ELSE Return(PyInt(index))

\* match_named without its issection() check
match_named_NoKeyCheck(info, index, type, name) ==
    IF ~issection(info)
    THEN Return(PyInt(index))
    ELSE named_section(info, index, type, name)

\* match_named without its "return index": the loop goes on
match_named_NoReturn(info, index, type, name) ==
    IF ~issection(info)
    THEN Raise("ConfigurationError", "section name already in use for key")
    ELSE LET r == named_section(info, index, type, name) IN
         IF IsRaise(r) THEN r ELSE Continue

\* the loop body for a child declared under the instance's name (key == name)
match_named(info, index, type, name) ==
    IF ~issection(info)
    THEN Raise("ConfigurationError", "section name already in use for key")
    ELSE named_section(info, index, type, name)

\* an unnamed child whose section type has the instance's type as its name
direct_match(info, index, name) ==
    IF ~(name # "" \/ allowUnnamed(info))
    THEN Raise("ConfigurationError", "sections must be named")
    ELSE Return(PyInt(index))

\* match_unnamed without the try/except around getsubtype
match_unnamed_NoExcept(info, index, type, name) ==
    IF info.sectiontype.name = type
    THEN direct_match(info, index, name)
    ELSE IF istypegroup(info.sectiontype)
    THEN LET st == info.sectiontype IN
         IF st.name = type
         THEN Raise("ConfigurationError",
                    "cannot define section with a sectiongroup type")
         ELSE LET sub == getsubtype(st, type) IN
              IF IsRaise(sub) THEN sub ELSE Return(PyInt(index))
    ELSE Continue

\* the loop body for an unnamed child ("must be a section or a sectiongroup")
match_unnamed(info, index, type, name) ==
    IF info.sectiontype.name = type
    THEN direct_match(info, index, name)
    ELSE IF istypegroup(info.sectiontype)
    THEN LET st == info.sectiontype IN
         IF st.name = type
         THEN Raise("ConfigurationError",
                    "cannot define section with a sectiongroup type")
         ELSE LET sub == getsubtype(st, type) IN
              IF Caught(sub, "ConfigurationError")
              THEN Continue
              ELSE IF IsRaise(sub)
              THEN sub
              ELSE Return(PyInt(index))
    ELSE Continue

\* the for loop from the child at 1-based position i on, and the raise that
\* follows the loop
RECURSIVE scan(_, _, _, _)
scan(children, i, type, name) ==
    IF i > Len(children)
    THEN Raise("ConfigurationError", "no matching section defined")
    ELSE
    LET key == children[i][1]
        info == children[i][2]
        index == i - 1
        r == IF key # ""
             THEN IF key = name
                  THEN match_named(info, index, type, name)
                  ELSE Continue
             ELSE match_unnamed(info, index, type, name)
    IN  IF r = Continue
        THEN scan(children, i + 1, type, name)
        ELSE r

\* getsectionindex without the raise after the loop: index is returned
getsectionindex_NoRaise(children, type, name) ==
    LET r == scan(children, 1, type, name) IN
    IF r = Raise("ConfigurationError", "no matching section defined")
    THEN Return(PyInt(Len(children) - 1))
    ELSE r

getsectionindex(children, type, name) == scan(children, 1, type, name)

\* st = self._children[i][1] is the child's descriptor, whose istypegroup()
\* is BaseInfo's
getsectioninfo(children, type, name) ==
    LET i == getsectionindex(children, type, name) IN
    IF IsRaise(i)
    THEN i
    ELSE LET st == children[i.value.n + 1][2] IN
         IF istypegroup(st)
         THEN Raise("AttributeError", "gettype")
         ELSE Return(st)

\* getinfo giving None for a key that is not declared, as dict.get does
getinfo_Default(s, key) ==
    IF key = ""
    THEN Raise("ConfigurationError", "cannot match a key without a name")
    ELSE IF key \notin DOMAIN s.keymap
    THEN Return(None)
    ELSE Return(s.children[s.keymap[key] + 1][2])

\* SectionType.getinfo
getinfo(s, key) ==
    IF key = ""
    THEN Raise("ConfigurationError", "cannot match a key without a name")
    ELSE IF key \notin DOMAIN s.keymap
    THEN Raise("ConfigurationError", "no key matching")
    ELSE Return(s.children[s.keymap[key] + 1][2])

----------------------------------------------------------------------------
(* Inputs of the calls *)

\* KeyInfo objects handed to addkey: keys always carry a name (the loop of
\* getsectionindex takes an unnamed child to be a section)
KeyInfos == {KeyInfo(n, a) : n \in Names, a \in Attributes \cup {""}}

\* SectionInfo objects and the name they are added under: a wildcard section
\* is added unnamed, a named one under its own name.  The calls made respect
\* what addsection and _add_child assert: the name given is never "*" or "+",
\* and an unnamed child carries an attribute
SectionAdds ==
    {<<n, SectionInfo(n, t, a)>> :
        n \in Names, t \in SectionTypes, a \in Attributes \cup {""}}
    \cup {<<"", SectionInfo(w, t, a)>> :
        w \in {"*", "+"}, t \in SectionTypes, a \in Attributes}

\* the (type, name) of a section instance met in a configuration document
InstanceTypes == {"T", "U", "G"}
InstanceNames == Names \cup {""}

----------------------------------------------------------------------------
(* Actions on a SectionType *)

TheSect == Sect(_children, _keymap, _attrmap)

SetSect(s) ==
    /\ _children' = s.children
    /\ _keymap' = s.keymap
    /\ _attrmap' = s.attrmap

AddKey ==
    /\ Len(_children) < MaxChildren
    /\ \E keyinfo \in KeyInfos :
          LET r == addkey(TheSect, keyinfo) IN
          /\ SetSect(r.s)
          /\ call' = [op |-> "addkey", key |-> keyinfo.name, info |-> keyinfo]
          /\ ret' = r.ret
    /\ UNCHANGED <<keyvars, schemavars>>

AddSection ==
    /\ Len(_children) < MaxChildren
    /\ \E a \in SectionAdds :
          LET r == addsection(TheSect, a[1], a[2]) IN
          /\ SetSect(r.s)
          /\ call' = [op |-> "addsection", key |-> a[1], info |-> a[2]]
          /\ ret' = r.ret
    /\ UNCHANGED <<keyvars, schemavars>>

GetSectionIndex ==
    /\ \E type \in InstanceTypes, name \in InstanceNames :
          /\ call' = [op |-> "getsectionindex", type |-> type, name |-> name]
          /\ ret' = getsectionindex(_children, type, name)
    /\ UNCHANGED <<sectvars, keyvars, schemavars>>

GetSectionInfo ==
    /\ \E type \in InstanceTypes, name \in InstanceNames :
          /\ call' = [op |-> "getsectioninfo", type |-> type, name |-> name]
          /\ ret' = getsectioninfo(_children, type, name)
    /\ UNCHANGED <<sectvars, keyvars, schemavars>>

GetInfo ==
    /\ \E key \in InstanceNames :
          /\ call' = [op |-> "getinfo", key |-> key]
          /\ ret' = getinfo(TheSect, key)
    /\ UNCHANGED <<sectvars, keyvars, schemavars>>

\* a SectionType as constructed, beside a KeyInfo that takes no part
Init ==
    /\ _children = <<>>
    /\ _keymap = EmptyMap
    /\ _attrmap = EmptyMap
    /\ maxOccurs = None
    /\ _finished = FALSE
    /\ _default = None
    /\ added = <<>>
    /\ selfname = ""
    /\ _types = EmptyMap
    /\ heap = EmptyMap
    /\ call = NoCall
    /\ ret = Return(None)

Next ==
    \/ AddKey
    \/ AddSection
    \/ GetSectionIndex
    \/ GetSectionInfo
    \/ GetInfo

Spec == Init /\ [][Next]_vars

----------------------------------------------------------------------------
(* Actions on a KeyInfo *)

Values == {"v1", "v2"}
Positions == {"p1", "p2"}

\* the occurrence bounds a KeyInfo is constructed with
MinOccursInputs == {Finite(0), Finite(1)}
MaxOccursInputs == {None, Finite(0), Finite(1), Finite(2), Unbounded}

TheKey == Key(maxOccurs, _finished, _default)

SetKey(k) ==
    /\ maxOccurs' = k.maxOccurs
    /\ _finished' = k.finished
    /\ _default' = k.default

Finish ==
    /\ LET r == finish(TheKey) IN
          /\ SetKey(r.k)
          /\ call' = [op |-> "finish"]
          /\ ret' = r.ret
    /\ UNCHANGED <<sectvars, added, schemavars>>

AddDefault ==
    /\ \E value \in Values, position \in Positions :
          LET r == adddefault(TheKey, value, position) IN
          /\ Len(added) < MaxDefaults \/ IsRaise(r.ret)
          /\ SetKey(r.k)
          /\ added' = IF IsRaise(r.ret)
                      THEN added
                      ELSE Append(added, ValueInfo(value, position))
          /\ call' = [op |-> "adddefault", value |-> value,
                      position |-> position]
          /\ ret' = r.ret
    /\ UNCHANGED <<sectvars, schemavars>>

GetDefault ==
    /\ call' = [op |-> "getdefault"]
    /\ ret' = getdefault(TheKey)
    /\ UNCHANGED <<sectvars, keyvars, schemavars>>

\* a KeyInfo as constructed (KeyInfo.__init__ after BaseInfo.__init__
\* returned), beside an empty SectionType that takes no part
InitKey ==
    /\ _children = <<>>
    /\ _keymap = EmptyMap
    /\ _attrmap = EmptyMap
    /\ \E minO \in MinOccursInputs, maxO \in MaxOccursInputs :
          /\ ~IsRaise(BaseInfo_init(minO, maxO))
          /\ maxOccurs = maxO
    /\ _finished = FALSE
    /\ _default = None
    /\ added = <<>>
    /\ selfname = ""
    /\ _types = EmptyMap
    /\ heap = EmptyMap
    /\ call = NoCall
    /\ ret = Return(None)

NextKey ==
    \/ Finish
    \/ AddDefault
    \/ GetDefault

SpecKey == InitKey /\ [][NextKey]_vars

----------------------------------------------------------------------------
(* Construction of the info objects, and SectionInfo.isAllowedName *)

\* the largest occurrence count a constructor is given
MaxCount == 3

PyBool(b) == [kind |-> "bool", b |-> b]

\* KeyInfo.__init__: the assertion, then BaseInfo.__init__
KeyInfo_init(minOccurs, maxOccurs_) ==
    IF minOccurs = None
    THEN Raise("AssertionError", "")
    ELSE BaseInfo_init(minOccurs, maxOccurs_)

\* SectionInfo.__init__: its two checks, then BaseInfo.__init__
SectionInfo_init(name, attribute, minOccurs, maxOccurs_) ==
    IF Gt(maxOccurs_, Finite(1)) /\ name \notin {"*", "+"}
    THEN Raise("SchemaError",
               "sections which can occur more than once must use * or +")
    ELSE IF Gt(maxOccurs_, Finite(1)) /\ attribute = ""
    THEN Raise("SchemaError",
               "sections which can occur more than once must specify a target attribute name")
    ELSE BaseInfo_init(minOccurs, maxOccurs_)

\* SectionInfo.isAllowedName; "name and True or False" is the truth of name
isAllowedName(info, name) ==
    IF name = "*" \/ name = "+" THEN FALSE
    ELSE IF info.name = "+" THEN name # ""
    ELSE IF name = "" THEN info.name = "*"
    ELSE name = info.name

\* the arguments of the constructors
OccursInputs == {None} \cup {Finite(n) : n \in 0..MaxCount}
DeclaredNames == Names \cup {"*", "+", ""}
CandidateNames == Names \cup {"*", "+", ""}

ConstructBaseInfo ==
    /\ \E name \in DeclaredNames, attribute \in {"", "a"},
          minO \in OccursInputs, maxO \in OccursInputs \cup {Unbounded} :
          /\ call' = [op |-> "BaseInfo", name |-> name,
                      attribute |-> attribute,
                      minOccurs |-> minO, maxOccurs |-> maxO]
          /\ ret' = BaseInfo_init(minO, maxO)
    /\ UNCHANGED <<sectvars, keyvars, schemavars>>

ConstructKeyInfo ==
    /\ \E name \in DeclaredNames, attribute \in {"", "a"},
          minO \in OccursInputs, maxO \in OccursInputs \cup {Unbounded} :
          /\ call' = [op |-> "KeyInfo", name |-> name,
                      attribute |-> attribute,
                      minOccurs |-> minO, maxOccurs |-> maxO]
          /\ ret' = KeyInfo_init(minO, maxO)
    /\ UNCHANGED <<sectvars, keyvars, schemavars>>

ConstructSectionInfo ==
    /\ \E name \in DeclaredNames, attribute \in {"", "a"},
          minO \in OccursInputs, maxO \in OccursInputs \cup {Unbounded} :
          /\ call' = [op |-> "SectionInfo", name |-> name,
                      attribute |-> attribute,
                      minOccurs |-> minO, maxOccurs |-> maxO]
          /\ ret' = SectionInfo_init(name, attribute, minO, maxO)
    /\ UNCHANGED <<sectvars, keyvars, schemavars>>

IsAllowedName ==
    /\ \E declared \in DeclaredNames, name \in CandidateNames :
          LET info == SectionInfo(declared, TypeT, "a") IN
          /\ call' = [op |-> "isAllowedName", info |-> info, name |-> name]
          /\ ret' = Return(PyBool(isAllowedName(info, name)))
    /\ UNCHANGED <<sectvars, keyvars, schemavars>>

NextInfo ==
    \/ ConstructBaseInfo
    \/ ConstructKeyInfo
    \/ ConstructSectionInfo
    \/ IsAllowedName

SpecInfo == Init /\ [][NextInfo]_vars

----------------------------------------------------------------------------

(* SchemaType: the type registry, the types it creates, and the traversals *)
(* getrequiredtypes and getunusedtypes                                     *)

\* the section slots a schema may hold in all its types together
MaxSlots == 2

\* str.lower() on the type names in use
Lower(n) ==
    CASE n = "T" -> "t"
      [] n = "U" -> "u"
      [] n = "G" -> "g"
      [] OTHER -> n

\* names given to createSectionType, and the groups given to addtype
TypeNames == {"T", "t", "u"}
GroupLowerT == GroupType("t", {"u"})
AddTypeInputs == {GroupG, GroupLowerT}
RootNames == {"", "root"}

\* the keys of a dictionary, as the list dict.keys() builds afresh
PyKeys(names) == [kind |-> "keys", names |-> names]

\* the schema as one value: the root's children and name, the registry, and
\* the children of every SectionType created
Schema(children, name, types, objects) ==
    [children |-> children, name |-> name, types |-> types,
     heap |-> objects]

\* the root object itself (a SchemaType is a SectionType)
RootType(name) == [kind |-> "SchemaType", name |-> name]

\* addtype that stores the type whatever the registry holds
addtype_Overwrite(types, typeinfo) ==
    [ret |-> Return(None),
     types |-> MapPut(types, Lower(typeinfo.name), typeinfo)]

\* SchemaType.addtype
addtype(types, typeinfo) ==
    LET n == Lower(typeinfo.name) IN
    IF n \in DOMAIN types
    THEN [ret |-> Raise("SchemaError", "type name cannot be redefined"),
          types |-> types]
    ELSE [ret |-> Return(None), types |-> MapPut(types, n, typeinfo)]

\* SchemaType.createSectionType: the new SectionType has no children
createSectionType(sch, name) ==
    LET t == SectionType(name)
        r == addtype(sch.types, t)
    IN  IF IsRaise(r.ret)
        THEN [ret |-> r.ret, sch |-> sch]
        ELSE [ret |-> Return(t),
              sch |-> [sch EXCEPT
                         !.types = r.types,
                         !.heap = MapPut(@, name,
                                         Sect(<<>>, EmptyMap, EmptyMap))]]

\* SectionType.gettypenames
gettypenames(sch) == DOMAIN sch.types

\* info._children of an object on the traversal stack
childrenof(sch, info) ==
    IF info.kind = "SchemaType"
    THEN sch.children
    ELSE sch.heap[info.name].children

\* the state of a run of getrequiredtypes: the dictionary d (its keys), the
\* stack, what the call gives when it ends, and the history of the run: the
\* names pushed, in order, and the number of pops
Run(d, stack) ==
    [d |-> d, stack |-> stack, ret |-> Return(None),
     pushed |-> <<>>, pops |-> 0]

\* the pops a run is followed for: more than any run makes that pushes a
\* type name once only
PopLimit(sch) == Cardinality(DOMAIN sch.types) + 2

\* a run followed up to PopLimit pops that had not ended
Unfinished == [kind |-> "unfinished"]

RECURSIVE forchildren_NoSeenCheck(_, _, _)
\* the for loop pushing the type of every section child, seen or not
forchildren_NoSeenCheck(children, i, run) ==
    IF i > Len(children) THEN run
    ELSE LET ci == children[i][2] IN
         IF issection(ci)
         THEN forchildren_NoSeenCheck(children, i + 1,
                 [run EXCEPT
                    !.d = @ \cup {ci.sectiontype.name},
                    !.stack = Append(@, ci.sectiontype),
                    !.pushed = Append(@, ci.sectiontype.name)])
         ELSE forchildren_NoSeenCheck(children, i + 1, run)

RECURSIVE forchildren(_, _, _)
\* "for key, ci in info._children:" from the i-th child on
forchildren(children, i, run) ==
    IF i > Len(children) THEN run
    ELSE LET ci == children[i][2] IN
         IF issection(ci) /\ ci.sectiontype.name \notin run.d
         THEN forchildren(children, i + 1,
                 [run EXCEPT
                    !.d = @ \cup {ci.sectiontype.name},
                    !.stack = Append(@, ci.sectiontype),
                    !.pushed = Append(@, ci.sectiontype.name)])
         ELSE forchildren(children, i + 1, run)

RECURSIVE whilestack(_, _, _)
\* "while stack:" : pop the last object and read its _children, which a
\* GroupType does not have
whilestack(sch, run, limit) ==
    IF run.stack = <<>>
    THEN [run EXCEPT !.ret = Return(PyKeys(run.d))]
    ELSE IF limit = 0
    THEN [run EXCEPT !.ret = Unfinished]
    ELSE LET info == run.stack[Len(run.stack)]
             popped == [run EXCEPT
                          !.stack = SubSeq(@, 1, Len(@) - 1),
                          !.pops = @ + 1]
         IN  IF istypegroup(info)
             THEN [popped EXCEPT
                     !.ret = Raise("AttributeError", "_children")]
             ELSE whilestack(sch,
                             forchildren(childrenof(sch, info), 1, popped),
                             limit - 1)

\* SectionType.getrequiredtypes called on the object self, with its history
requiredtypes_run(sch, self) ==
    whilestack(sch,
               Run(IF self.name # "" THEN {self.name} ELSE {}, <<self>>),
               PopLimit(sch))

getrequiredtypes(sch, self) == requiredtypes_run(sch, self).ret

\* SchemaType.getunusedtypes: list.remove raises ValueError for a name the
\* list does not hold
getunusedtypes(sch) ==
    LET alltypes == gettypenames(sch)
        reqtypes == getrequiredtypes(sch, RootType(sch.name))
    IN  IF reqtypes.kind # "return"
        THEN reqtypes
        ELSE IF ~(reqtypes.value.names \subseteq alltypes)
        THEN Raise("ValueError", "list.remove(x): x not in list")
        ELSE LET rest == alltypes \ reqtypes.value.names IN
             Return(PyKeys(IF sch.name # "" /\ sch.name \in rest
                           THEN rest \ {sch.name}
                           ELSE rest))

----------------------------------------------------------------------------
(* Actions on a SchemaType and the types it created *)

TheSchema == Schema(_children, selfname, _types, heap)

\* the objects that hold children: the root and every created SectionType
Owners == {RootType(selfname)} \cup {SectionType(n) : n \in DOMAIN heap}

\* the type objects the registry holds
RegisteredTypes == {_types[n] : n \in DOMAIN _types}

RECURSIVE ChildCount(_, _)
\* the children of the created types named in S, all together
ChildCount(objects, S) ==
    IF S = {} THEN 0
    ELSE LET n == CHOOSE x \in S : TRUE IN
         Len(objects[n].children) + ChildCount(objects, S \ {n})

SlotCount == Len(_children) + ChildCount(heap, DOMAIN heap)

CreateSectionType ==
    /\ \E name \in TypeNames :
          LET r == createSectionType(TheSchema, name) IN
          /\ _types' = r.sch.types
          /\ heap' = r.sch.heap
          /\ call' = [op |-> "createSectionType", name |-> name]
          /\ ret' = r.ret
    /\ UNCHANGED <<sectvars, keyvars, selfname>>

AddType ==
    /\ \E typeinfo \in AddTypeInputs :
          LET r == addtype(_types, typeinfo) IN
          /\ _types' = r.types
          /\ call' = [op |-> "addtype", typeinfo |-> typeinfo]
          /\ ret' = r.ret
    /\ UNCHANGED <<sectvars, keyvars, selfname, heap>>

\* addsection of an unnamed "*" section of a registered type, on the root or
\* on a created type
AddSlot ==
    /\ \E self \in Owners, t \in RegisteredTypes, a \in Attributes :
          LET sectinfo == SectionInfo("*", t, a)
              s == IF self.kind = "SchemaType"
                   THEN TheSect
                   ELSE heap[self.name]
              r == addsection(s, "", sectinfo)
          IN  /\ SlotCount < MaxSlots \/ IsRaise(r.ret)
              /\ IF self.kind = "SchemaType"
                 THEN SetSect(r.s) /\ heap' = heap
                 ELSE /\ heap' = [heap EXCEPT ![self.name] = r.s]
                      /\ UNCHANGED sectvars
              /\ call' = [op |-> "addsection", self |-> self, key |-> "",
                          info |-> sectinfo]
              /\ ret' = r.ret
    /\ UNCHANGED <<keyvars, selfname, _types>>

GetRequiredTypes ==
    /\ \E self \in Owners :
          /\ call' = [op |-> "getrequiredtypes", self |-> self]
          /\ ret' = getrequiredtypes(TheSchema, self)
    /\ UNCHANGED <<sectvars, keyvars, schemavars>>

\* getunusedtypes removing the names from the registry's own keys
GetUnusedTypes_InPlace ==
    /\ call' = [op |-> "getunusedtypes"]
    /\ ret' = getunusedtypes(TheSchema)
    /\ _types' = IF IsRaise(ret')
                 THEN _types
                 ELSE [n \in ret'.value.names |-> _types[n]]
    /\ UNCHANGED <<sectvars, keyvars, selfname, heap>>

GetUnusedTypes ==
    /\ call' = [op |-> "getunusedtypes"]
    /\ ret' = getunusedtypes(TheSchema)
    /\ UNCHANGED <<sectvars, keyvars, schemavars>>

\* a SchemaType as constructed, named or not, with an empty registry
InitSchema ==
    /\ _children = <<>>
    /\ _keymap = EmptyMap
    /\ _attrmap = EmptyMap
    /\ maxOccurs = None
    /\ _finished = FALSE
    /\ _default = None
    /\ added = <<>>
    /\ selfname \in RootNames
    /\ _types = EmptyMap
    /\ heap = EmptyMap
    /\ call = NoCall
    /\ ret = Return(None)

NextSchema ==
    \/ CreateSectionType
    \/ AddType
    \/ AddSlot
    \/ GetRequiredTypes
    \/ GetUnusedTypes

SpecSchema == InitSchema /\ [][NextSchema]_vars

----------------------------------------------------------------------------

(* The whole schema: every authoring call and every query *)

\* the children, defaults and registered types a schema may hold together
MaxSize == 2

Size == SlotCount + Len(added) + Cardinality(DOMAIN _types)

\* the step made is within the bound: the schema could still grow, or the
\* call failed
WithinSize == Size < MaxSize \/ IsRaise(ret')

AddKeyWithin == AddKey /\ WithinSize
AddSlotWithin == AddSlot /\ WithinSize
CreateSectionTypeWithin == CreateSectionType /\ WithinSize
AddTypeWithin == AddType /\ WithinSize
AddDefaultWithin == AddDefault /\ WithinSize

NextAll ==
    \/ AddKeyWithin
    \/ AddSlotWithin
    \/ CreateSectionTypeWithin
    \/ AddTypeWithin
    \/ AddDefaultWithin
    \/ Finish
    \/ GetSectionIndex
    \/ GetSectionInfo
    \/ GetInfo
    \/ GetDefault
    \/ GetRequiredTypes
    \/ GetUnusedTypes

SpecAll == InitSchema /\ [][NextAll]_vars

----------------------------------------------------------------------------

(* Properties of KeyInfo, checked under SpecKey *)

IsSchemaError(r) == IsRaise(r) /\ r.exc = "SchemaError"

IsConfigurationError(r) == IsRaise(r) /\ r.exc = "ConfigurationError"

\* maxOccurs > 1, finite or Unbounded
Repeatable(m) == m.kind = "Unbounded" \/ (m.kind = "int" /\ m.n > 1)

\* C7: once finish() has succeeded the key stays finished: every further
\* finish() and adddefault() raises SchemaError, _default is never changed
\* again, and getdefault() returns, now and after any later call, what it
\* returned before.
C7_FinishedIsFinal ==
    [][_finished =>
          /\ _finished'
          /\ _default' = _default
          /\ maxOccurs' = maxOccurs
          /\ ~IsRaise(getdefault(TheKey))
          /\ getdefault(Key(maxOccurs', _finished', _default'))
                = getdefault(TheKey)
          /\ call'.op \in {"finish", "adddefault"} => IsSchemaError(ret')
          /\ call'.op = "getdefault" => ret' = getdefault(TheKey)]_vars

\* a finished key that holds a default has refused a further adddefault
C7_Witness ==
    /\ _finished
    /\ _default # None
    /\ call.op = "adddefault"
    /\ IsSchemaError(ret)

\* C8: getdefault() on a key that is not finished raises SchemaError; on a
\* finished key to which no default was added it returns the empty list when
\* the key is repeatable and None when it is singular.
C8_GetDefault ==
    call.op = "getdefault" =>
        /\ ~_finished => IsSchemaError(ret)
        /\ (_finished /\ added = <<>>) =>
              IF Repeatable(maxOccurs)
              THEN ret = Return(PyList(<<>>))
              ELSE ret = Return(None)

\* a finished Unbounded key without defaults has answered getdefault
C8_Witness ==
    /\ call.op = "getdefault"
    /\ _finished
    /\ added = <<>>
    /\ maxOccurs = Unbounded
    /\ ret = Return(PyList(<<>>))

\* C9: on an unfinished singular key the first adddefault stores its value
\* and every later one raises SchemaError and leaves the default as it was;
\* on a repeatable key, after N adddefault calls that returned and finish(),
\* getdefault() returns the list of those N values in call order.
C9_AddDefault ==
    /\ [][(call'.op = "adddefault" /\ ~_finished /\ ~Repeatable(maxOccurs)) =>
             IF _default = None
             THEN /\ ~IsRaise(ret')
                  /\ _default' = ValueInfo(call'.value, call'.position)
             ELSE /\ IsSchemaError(ret')
                  /\ _default' = _default]_vars
    /\ [](call.op = "getdefault" /\ _finished /\ Repeatable(maxOccurs) =>
             /\ ret = Return(PyList(added))
             /\ Len(ret.value.items) = Len(added))

\* a finished repeatable key has returned two different defaults in the
\* order they were added
C9_Witness ==
    /\ call.op = "getdefault"
    /\ _finished
    /\ Repeatable(maxOccurs)
    /\ Len(added) >= 2
    /\ added[1] # added[2]
    /\ ret = Return(PyList(added))

\* a singular key has refused a second default
C9_WitnessSingular ==
    /\ call.op = "adddefault"
    /\ ~_finished
    /\ ~Repeatable(maxOccurs)
    /\ IsSchemaError(ret)

----------------------------------------------------------------------------
(* Properties of getsectionindex / getsectioninfo and of the child list,   *)
(* checked under Spec                                                      *)

ChildPositions == 1..Len(_children)

ChildKey(i) == _children[i][1]

ChildInfo(i) == _children[i][2]

\* child i is a key declared under the name
KeyNamed(i, name) == ChildKey(i) = name /\ ~issection(ChildInfo(i))

\* child i is an unnamed slot whose section type is a group
GroupSlot(i) == ChildKey(i) = "" /\ istypegroup(ChildInfo(i).sectiontype)

\* child i is an unnamed slot for the type: its section type carries that
\* name, or is a group with a subtype of that name
UnnamedSlotFor(i, type) ==
    /\ ChildKey(i) = ""
    /\ \/ ChildInfo(i).sectiontype.name = type
       \/ /\ istypegroup(ChildInfo(i).sectiontype)
          /\ type \in ChildInfo(i).sectiontype._subtypes

\* child i matches the instance: the scan does not go past it
Matches(i, type, name) ==
    \/ ChildKey(i) # "" /\ ChildKey(i) = name
    \/ UnnamedSlotFor(i, type)

\* child i accepts the instance
Accepts(i, type, name) ==
    IF ChildKey(i) # ""
    THEN /\ ChildKey(i) = name
         /\ issection(ChildInfo(i))
         /\ IF istypegroup(ChildInfo(i).sectiontype)
            THEN type \in ChildInfo(i).sectiontype._subtypes
            ELSE ChildInfo(i).sectiontype.name = type
    ELSE /\ UnnamedSlotFor(i, type)
         /\ ChildInfo(i).sectiontype.name = type
               => (name # "" \/ ChildInfo(i).name = "*")

\* C1 as stated: a named instance whose name is that of a declared key makes
\* getsectionindex raise ConfigurationError "already in use for key",
\* whatever the other children are.
C1_Original ==
    (call.op = "getsectionindex" /\ call.name # "") =>
        \A i \in ChildPositions :
            KeyNamed(i, call.name) =>
                ret = Raise("ConfigurationError",
                            "section name already in use for key")

\* C1 amended: a named instance whose name is that of a declared key makes
\* getsectionindex raise ConfigurationError "already in use for key",
\* provided no child declared before the key is an unnamed slot for the
\* instance's type.
C1_KeyNameInUse ==
    (call.op = "getsectionindex" /\ call.name # "") =>
        \A i \in ChildPositions :
            (/\ KeyNamed(i, call.name)
             /\ \A j \in 1..(i - 1) : ~UnnamedSlotFor(j, call.type)) =>
                ret = Raise("ConfigurationError",
                            "section name already in use for key")

\* the key is declared after an unnamed slot for another type, and the
\* instance carrying the key's name was refused
C1_Witness ==
    /\ call.op = "getsectionindex"
    /\ call.name # ""
    /\ Len(_children) = 2
    /\ ChildKey(1) = ""
    /\ KeyNamed(2, call.name)
    /\ ret = Raise("ConfigurationError", "section name already in use for key")

\* C2 as stated: when the first child that matches the instance is an
\* unnamed slot whose section type is a group named like the instance's
\* type, getsectionindex raises ConfigurationError and returns no index.
C2_Original ==
    call.op = "getsectionindex" =>
        \A i \in ChildPositions :
            (/\ GroupSlot(i)
             /\ ChildInfo(i).sectiontype.name = call.type
             /\ \A j \in 1..(i - 1) : ~Matches(j, call.type, call.name)) =>
                IsConfigurationError(ret)

\* the children begin [A, B]: A a section declared under a name, with a
\* concrete type, and B an unnamed slot of a group with a subtype named like
\* A's type
C3_Shape ==
    /\ Len(_children) >= 2
    /\ ChildKey(1) # ""
    /\ issection(ChildInfo(1))
    /\ ~istypegroup(ChildInfo(1).sectiontype)
    /\ GroupSlot(2)
    /\ ChildInfo(1).sectiontype.name \in ChildInfo(2).sectiontype._subtypes

\* C3: with the children [A, B], A a section declared under the name x with
\* the concrete type T and B an unnamed slot of a group with a subtype named
\* T, getsectionindex(T, x) returns the index of A.
C3_ExactNamePrecedence ==
    (/\ call.op = "getsectionindex"
     /\ C3_Shape
     /\ call.type = ChildInfo(1).sectiontype.name
     /\ call.name = ChildKey(1)) =>
        ret = Return(PyInt(0))

\* getsectionindex(T, x) has returned 0 for exactly such children [A, B]
C3_Witness ==
    /\ call.op = "getsectionindex"
    /\ C3_Shape
    /\ Len(_children) = 2
    /\ call.type = ChildInfo(1).sectiontype.name
    /\ call.name = ChildKey(1)
    /\ ret = Return(PyInt(0))

\* child i is an unnamed group slot that has neither the type's name nor a
\* subtype of that name
MissedGroupSlot(i, type) ==
    /\ GroupSlot(i)
    /\ ChildInfo(i).sectiontype.name # type
    /\ type \notin ChildInfo(i).sectiontype._subtypes

\* C4: getsectionindex never raises the SchemaError of a group's getsubtype;
\* when the scan passes an unnamed group slot without the instance's type
\* and the first child that matches the instance comes later and accepts it,
\* that child's index is returned.
C4_GroupMissContinues ==
    call.op = "getsectionindex" =>
        /\ ~IsSchemaError(ret)
        /\ \A i \in ChildPositions : \A j \in (i + 1)..Len(_children) :
              (/\ MissedGroupSlot(i, call.type)
               /\ \A k \in 1..(j - 1) : ~Matches(k, call.type, call.name)
               /\ Accepts(j, call.type, call.name)) =>
                  ret = Return(PyInt(j - 1))

\* a group slot without the type, then a slot of the type: the second is
\* returned
C4_Witness ==
    /\ call.op = "getsectionindex"
    /\ Len(_children) = 2
    /\ MissedGroupSlot(1, call.type)
    /\ Accepts(2, call.type, call.name)
    /\ ret = Return(PyInt(1))

\* C5: when the instance's type is no subtype of any group slot and not the
\* section type's name of any unnamed slot, and the instance's name is not
\* the declared name of any child, getsectionindex raises ConfigurationError
\* "no matching section defined".
C5_NoMatch ==
    (/\ call.op = "getsectionindex"
     /\ \A i \in ChildPositions :
           /\ ~UnnamedSlotFor(i, call.type)
           /\ (issection(ChildInfo(i)) /\ istypegroup(ChildInfo(i).sectiontype))
                 => call.type \notin ChildInfo(i).sectiontype._subtypes
           /\ ChildKey(i) # "" => ChildKey(i) # call.name) =>
        ret = Raise("ConfigurationError", "no matching section defined")

\* a key and a group slot, neither matching, and the instance was refused
C5_Witness ==
    /\ call.op = "getsectionindex"
    /\ Len(_children) = 2
    /\ \E i \in ChildPositions : MissedGroupSlot(i, call.type)
    /\ \E i \in ChildPositions : ChildKey(i) # "" /\ ChildKey(i) # call.name
    /\ ret = Raise("ConfigurationError", "no matching section defined")

\* C6 as stated: whenever getsectionindex(type, name) returns,
\* getsectioninfo(type, name) returns a concrete SectionType named type.
C6_Original ==
    (/\ call.op = "getsectioninfo"
     /\ ~IsRaise(getsectionindex(_children, call.type, call.name))) =>
        /\ ret.kind = "return"
        /\ ret.value.kind = "SectionType"
        /\ ret.value.name = call.type

\* no two children share a non-empty declared name or a non-empty attribute
NoDuplicates ==
    \A i \in ChildPositions : \A j \in ChildPositions :
        i # j =>
            /\ ChildKey(i) # "" => ChildKey(i) # ChildKey(j)
            /\ ChildInfo(i).attribute # ""
                  => ChildInfo(i).attribute # ChildInfo(j).attribute

\* a child of the list already has the name or the attribute
WouldDuplicate(key, info) ==
    \E i \in ChildPositions :
        \/ key # "" /\ ChildKey(i) = key
        \/ info.attribute # "" /\ ChildInfo(i).attribute = info.attribute

\* C10: no two children share a non-empty declared name or a non-empty
\* attribute; an addkey / addsection that would make such a pair raises
\* SchemaError; every call that returns appends its child at the end, and a
\* call that raises leaves the list as it was.
C10_NoDuplicateChildren ==
    /\ []NoDuplicates
    /\ [][call'.op \in {"addkey", "addsection"} =>
             /\ WouldDuplicate(call'.key, call'.info) =>
                   IsSchemaError(ret') /\ _children' = _children
             /\ IF IsRaise(ret')
                THEN _children' = _children
                ELSE _children' = Append(_children,
                                         <<call'.key, call'.info>>)]_vars

\* a child with a new name and an attribute already in use was refused
C10_Witness ==
    /\ call.op \in {"addkey", "addsection"}
    /\ Len(_children) >= 1
    /\ \A i \in ChildPositions : ChildKey(i) # call.key
    /\ ret = Raise("SchemaError", "child attribute name already used")

----------------------------------------------------------------------------
(* Properties of the constructors and of isAllowedName, under SpecInfo *)

IsConstruction == call.op \in {"BaseInfo", "KeyInfo", "SectionInfo"}

\* C12: a construction whose minOccurs and maxOccurs are both finite with
\* minOccurs > maxOccurs fails with a SchemaError.
C12_Original ==
    (/\ IsConstruction
     /\ call.minOccurs.kind = "int"
     /\ call.maxOccurs.kind = "int"
     /\ call.minOccurs.n > call.maxOccurs.n)
        => IsSchemaError(ret)

\* the reference of C15: what the declared name of a section allows
AllowedByReference(declared, candidate) ==
    IF declared = "*" THEN TRUE
    ELSE IF declared = "+" THEN candidate # ""
    ELSE candidate = declared

\* C15: isAllowedName(candidate) is the reference: a section declared "*"
\* allows every instance, one declared "+" every named instance, any other
\* exactly the instance of its own name.
C15_Original ==
    (call.op = "isAllowedName" /\ call.name \in InstanceNames)
        => ret = Return(PyBool(AllowedByReference(call.info.name, call.name)))

----------------------------------------------------------------------------
(* Properties of the type registry and the traversals, under SpecSchema *)

\* the type object a registration call hands to addtype
Registered(c) ==
    IF c.op = "addtype" THEN c.typeinfo ELSE SectionType(c.name)

\* C11: the registry is write-once per lowercased name: an entry is never
\* replaced or removed, every type is stored under its lowercased name, a
\* registration under a free name stores the type, and one whose name is held
\* already, up to letter case, raises SchemaError "type name cannot be
\* redefined" and leaves the registry as it was.
C11_WriteOnce ==
    [][/\ \A n \in DOMAIN _types :
             n \in DOMAIN _types' /\ _types'[n] = _types[n]
       /\ \A n \in DOMAIN _types' : Lower(_types'[n].name) = n
       /\ (call'.op \in {"addtype", "createSectionType"}) =>
             LET t == Registered(call')
                 n == Lower(t.name)
             IN  IF n \in DOMAIN _types
                 THEN /\ ret' = Raise("SchemaError",
                                      "type name cannot be redefined")
                      /\ _types' = _types
                 ELSE /\ ~IsRaise(ret')
                      /\ _types' = MapPut(_types, n, t)]_vars

\* a createSectionType("T") refused because "t" is registered
C11_Witness ==
    /\ call = [op |-> "createSectionType", name |-> "T"]
    /\ "t" \in DOMAIN _types
    /\ _types["t"] = SectionType("t")
    /\ IsSchemaError(ret)

\* the types the section children of an object refer to; a group has none
Referenced(sch, o) ==
    IF istypegroup(o) THEN {}
    ELSE LET c == childrenof(sch, o) IN
         {c[i][2].sectiontype : i \in {j \in 1..Len(c) : issection(c[j][2])}}

RECURSIVE Closure(_, _)
Closure(sch, S) ==
    LET S2 == S \cup UNION {Referenced(sch, o) : o \in S} IN
    IF S2 = S THEN S ELSE Closure(sch, S2)

\* the names getrequiredtypes is to give for the object self
ReachableNames(sch, self) ==
    {o.name : o \in Closure(sch, Referenced(sch, self))}
        \cup (IF self.name # "" THEN {self.name} ELSE {})

\* C14: getrequiredtypes returns exactly the names of the types reachable
\* through section children and nested concrete types, with its own name
\* when it has one; a group slot gives the group's name and is not entered.
C14_Original ==
    call.op = "getrequiredtypes"
        => ret = Return(PyKeys(ReachableNames(TheSchema, call.self)))

\* C13: getunusedtypes returns, without error, exactly the registered type
\* names that getrequiredtypes does not give, the root's own name left out.
C13_Original ==
    call.op = "getunusedtypes"
        => ret = Return(PyKeys(
                 ({t.name : t \in RegisteredTypes}
                     \ ReachableNames(TheSchema, RootType(selfname)))
                     \ {selfname}))

NoRepeat(s) == \A i, j \in 1..Len(s) : s[i] = s[j] => i = j

\* C19: every run of getrequiredtypes ends: no type name is pushed twice and
\* the loop makes at most (number of type names + 1) pops.
C19_Terminates ==
    call.op = "getrequiredtypes" =>
        LET run == requiredtypes_run(TheSchema, call.self) IN
        /\ ret = run.ret
        /\ ret # Unfinished
        /\ NoRepeat(run.pushed)
        /\ run.pops <= Cardinality({t.name : t \in RegisteredTypes}) + 1

\* getrequiredtypes on "t", whose slot is of type "u", whose slot is of "t"
C19_Witness ==
    /\ call = [op |-> "getrequiredtypes", self |-> SectionType("t")]
    /\ DOMAIN heap = {"t", "u"}
    /\ Referenced(TheSchema, SectionType("t")) = {SectionType("u")}
    /\ Referenced(TheSchema, SectionType("u")) = {SectionType("t")}
    /\ ret = Return(PyKeys({"t", "u"}))

----------------------------------------------------------------------------
(* Agreement of the child list and its index maps, under Spec *)

\* C17: _keymap maps k to i exactly when the child at position i was added
\* under the non-empty name k, _attrmap maps a to i exactly when the child at
\* position i has the non-empty attribute a, every index is a position of the
\* child list, and getinfo(k) returns the info added under k and raises
\* ConfigurationError for an empty or undeclared k.
C17_MapsAgree ==
    /\ \A k \in DOMAIN _keymap : _keymap[k] + 1 \in ChildPositions
    /\ \A a \in DOMAIN _attrmap : _attrmap[a] + 1 \in ChildPositions
    /\ \A i \in ChildPositions :
          \A k \in DOMAIN _keymap \cup {ChildKey(i)} :
             (k \in DOMAIN _keymap /\ _keymap[k] + 1 = i)
                <=> (k # "" /\ ChildKey(i) = k)
    /\ \A i \in ChildPositions :
          \A a \in DOMAIN _attrmap \cup {ChildInfo(i).attribute} :
             (a \in DOMAIN _attrmap /\ _attrmap[a] + 1 = i)
                <=> (a # "" /\ ChildInfo(i).attribute = a)
    /\ call.op = "getinfo" =>
          IF call.key # "" /\ \E i \in ChildPositions : ChildKey(i) = call.key
          THEN \E i \in ChildPositions :
                  ChildKey(i) = call.key /\ ret = Return(ChildInfo(i))
          ELSE IsConfigurationError(ret)

\* getinfo("y") gives the second child, added under "y" after another child
C17_Witness ==
    /\ call = [op |-> "getinfo", key |-> "y"]
    /\ Len(_children) = 2
    /\ ChildKey(1) # "y"
    /\ ChildKey(2) = "y"
    /\ _keymap["y"] = 1
    /\ ret = Return(ChildInfo(2))

----------------------------------------------------------------------------
(* Frame properties, under SpecAll *)

QueryOps ==
    {"getsectionindex", "getsectioninfo", "getinfo", "getdefault",
     "getrequiredtypes", "getunusedtypes"}

\* C16: a query, whether it returns or raises, changes nothing: the child
\* lists and index maps of the root and of every created type, the registry
\* with the groups it holds, and the key's fields are after the call what
\* they were before it.
C16_QueriesChangeNothing ==
    [][call'.op \in QueryOps =>
          /\ _children' = _children
          /\ _keymap' = _keymap
          /\ _attrmap' = _attrmap
          /\ selfname' = selfname
          /\ _types' = _types
          /\ heap' = heap
          /\ maxOccurs' = maxOccurs
          /\ _finished' = _finished
          /\ _default' = _default]_vars

\* getunusedtypes has returned the empty list on a schema whose one
\* registered type is required
C16_Witness ==
    /\ call.op = "getunusedtypes"
    /\ ret = Return(PyKeys({}))
    /\ DOMAIN _types # {}
    /\ Len(_children) > 0

\* C18: an addkey, addsection, addtype or createSectionType that raises
\* leaves the child list and index maps of every type, and the registry, as
\* they were.
C18_AllOrNothing ==
    [][(call'.op \in {"addkey", "addsection", "addtype", "createSectionType"}
            /\ IsRaise(ret')) =>
          /\ _children' = _children
          /\ _keymap' = _keymap
          /\ _attrmap' = _attrmap
          /\ _types' = _types
          /\ heap' = heap]_vars

\* an addkey under a new name refused because its attribute is in use
C18_Witness ==
    /\ call.op = "addkey"
    /\ IsSchemaError(ret)
    /\ call.key \notin DOMAIN _keymap
    /\ call.info.attribute \in DOMAIN _attrmap
    /\ Len(_children) = 1

====
